---- MODULE Spec2Model ----
(***************************************************************************)
(* ai-paper-daily: the relevance scorer and selector of arxiv_client.py,  *)
(* the trend aggregator of trend_analyzer.py and the orchestration of     *)
(* main.py.  Scores are integers in thousandths (3.0 is 3000); texts are  *)
(* strings and keyword matching is Python's substring test.               *)
(***************************************************************************)
EXTENDS Integers, Sequences, FiniteSets, TLC

(***************************************************************************)
(* Strings: str.lower(), `k in s`, " ".join(xs), s[:n]                     *)
(***************************************************************************)

LowerChar(c) ==
  CASE c = "A" -> "a" [] c = "B" -> "b" [] c = "C" -> "c" [] c = "D" -> "d"
    [] c = "E" -> "e" [] c = "F" -> "f" [] c = "G" -> "g" [] c = "H" -> "h"
    [] c = "I" -> "i" [] c = "J" -> "j" [] c = "K" -> "k" [] c = "L" -> "l"
    [] c = "M" -> "m" [] c = "N" -> "n" [] c = "O" -> "o" [] c = "P" -> "p"
    [] c = "Q" -> "q" [] c = "R" -> "r" [] c = "S" -> "s" [] c = "T" -> "t"
    [] c = "U" -> "u" [] c = "V" -> "v" [] c = "W" -> "w" [] c = "X" -> "x"
    [] c = "Y" -> "y" [] c = "Z" -> "z" [] OTHER -> c

\* str.lower(), character by character; the string is split in halves to
\* keep the evaluation shallow
RECURSIVE Lower(_)
Lower(s) ==
  IF Len(s) = 0 THEN ""
  ELSE IF Len(s) = 1 THEN LowerChar(s)
  ELSE Lower(SubSeq(s, 1, Len(s) \div 2)) \o Lower(SubSeq(s, Len(s) \div 2 + 1, Len(s)))

\* Python's `k in s` on strings: k occurs in s as a contiguous substring.
Contains(k, s) ==
  \E i \in 1..(Len(s) - Len(k) + 1) : SubSeq(s, i, i + Len(k) - 1) = k

\* " ".join(xs)
RECURSIVE JoinSpace(_)
JoinSpace(xs) ==
  IF Len(xs) = 0 THEN ""
  ELSE IF Len(xs) = 1 THEN xs[1]
  ELSE xs[1] \o " " \o JoinSpace(Tail(xs))

\* s[:n] on a string or a list
Prefix(s, n) == SubSeq(s, 1, IF Len(s) < n THEN Len(s) ELSE n)

(***************************************************************************)
(* The keyword tables of filter_important_papers, as written in the source *)
(***************************************************************************)

high_priority_keywords ==
  << "code generation", "code completion", "copilot", "coding assistant",
     "web development", "frontend", "backend", "full stack",
     "automated testing", "test generation", "bug detection", "code review",
     "deployment", "devops", "ci/cd", "continuous integration",
     "api", "rest", "graphql", "microservices", "serverless",
     "javascript", "typescript", "react", "vue", "angular", "node.js",
     "python", "django", "flask", "fastapi",
     "web security", "vulnerability detection", "security analysis" >>

medium_priority_keywords ==
  << "llm", "large language model", "gpt", "claude", "gemini",
     "retrieval augmented generation", "rag", "embeddings", "vector database",
     "chatbot", "conversational ai", "customer support", "virtual assistant",
     "search", "recommendation", "personalization", "content generation",
     "natural language processing", "nlp", "text analysis", "sentiment analysis",
     "automated workflow", "process automation", "intelligent agent",
     "real-time", "streaming", "scalability", "performance optimization",
     "user experience", "ux", "accessibility", "personalization" >>

basic_keywords ==
  << "machine learning", "deep learning", "neural network",
     "optimization", "efficient", "lightweight", "fast", "low latency",
     "monitoring", "observability", "analytics", "metrics",
     "database", "caching", "storage", "data processing",
     "cloud", "aws", "azure", "gcp", "kubernetes", "docker",
     "performance", "benchmark", "evaluation", "testing",
     "maintainability", "reliability", "robustness" >>

exclusion_keywords ==
  << "survey", "review", "tutorial", "preliminary", "work in progress",
     "short paper", "position paper", "demo", "poster",
     "theoretical", "mathematical proof", "formal verification",
     "robotics", "hardware", "embedded", "iot sensor",
     "medical", "healthcare", "biology", "physics", "chemistry" >>

prestigious_affiliations ==
  << "google", "meta", "microsoft", "amazon", "netflix", "uber", "airbnb",
     "github", "openai", "anthropic", "vercel", "stripe", "shopify",
     "stanford", "mit", "berkeley", "carnegie mellon", "toronto",
     "deepmind", "hugging face", "databricks", "snowflake" >>

practical_keywords ==
  << "implementation", "system", "framework", "tool", "platform",
     "open source", "github", "repository", "dataset", "benchmark",
     "evaluation", "experiment", "comparison", "analysis", "study" >>

web_relevant_categories ==
  << "cs.SE", "cs.HC", "cs.IR", "cs.DB", "cs.DC", "cs.PL", "cs.CR" >>

\* Weights, in thousandths.
HighWeight == 3000
HighTitleBonus == 1000
MediumWeight == 2000
MediumTitleBonus == 500
BasicWeight == 1000
AffiliationBonus == 2000
ExclusionPenalty == 2000
PracticalWeight == 1500
CategoryBonus == 2000
TeamBonus == 1000
CrowdPenalty == 1000
TeamMin == 2
TeamMax == 6
CrowdMin == 12
RecentDays == 30
RecentBonus == 1000
QuarterDays == 90
QuarterBonus == 500

(***************************************************************************)
(* datetime.strptime(published[:10], "%Y-%m-%d") and date arithmetic       *)
(***************************************************************************)

DigitVal(c) ==
  CASE c = "0" -> 0 [] c = "1" -> 1 [] c = "2" -> 2 [] c = "3" -> 3
    [] c = "4" -> 4 [] c = "5" -> 5 [] c = "6" -> 6 [] c = "7" -> 7
    [] c = "8" -> 8 [] c = "9" -> 9 [] OTHER -> -1

\* s[i] as a one-character string, "" past the end
Ch(s, i) == IF i >= 1 /\ i <= Len(s) THEN SubSeq(s, i, i) ELSE ""

IsDigit(c) == DigitVal(c) >= 0

IsLeap(y) == (y % 4 = 0 /\ y % 100 # 0) \/ y % 400 = 0

DaysInMonth(y, m) ==
  IF m = 2 THEN (IF IsLeap(y) THEN 29 ELSE 28)
  ELSE IF m \in {4, 6, 9, 11} THEN 30 ELSE 31

RECURSIVE DaysBeforeMonth(_, _)
DaysBeforeMonth(y, m) ==
  IF m <= 1 THEN 0 ELSE DaysBeforeMonth(y, m - 1) + DaysInMonth(y, m - 1)

\* date.toordinal(): 0001-01-01 is day 1
Ordinal(y, m, d) ==
  LET p == y - 1
  IN  p * 365 + (p \div 4) - (p \div 100) + (p \div 400) + DaysBeforeMonth(y, m) + d

NoDate == -1

\* The width of the %m field at position p: 1[0-2] | 0[1-9] | [1-9], the
\* first alternative after which the "-" of the format follows; 0: no match.
MonthWidth(s, p) ==
  LET a == Ch(s, p)
      b == Ch(s, p + 1)
      two == (a = "1" /\ b \in {"0", "1", "2"}) \/ (a = "0" /\ IsDigit(b) /\ b # "0")
  IN  IF two /\ Ch(s, p + 2) = "-" THEN 2
      ELSE IF IsDigit(a) /\ a # "0" /\ b = "-" THEN 1
      ELSE 0

\* The width of the %d field at position p: 3[01] | [12]\d | 0[1-9] | [1-9] | " "[1-9],
\* the first alternative that matches; 0: no match.
DayWidth(s, p) ==
  LET a == Ch(s, p)
      b == Ch(s, p + 1)
  IN  IF a = "3" /\ b \in {"0", "1"} THEN 2
      ELSE IF a \in {"1", "2"} /\ IsDigit(b) THEN 2
      ELSE IF a = "0" /\ IsDigit(b) /\ b # "0" THEN 2
      ELSE IF IsDigit(a) /\ a # "0" THEN 1
      ELSE IF a = " " /\ IsDigit(b) /\ b # "0" THEN 2
      ELSE 0

\* The number a field of digits (and a leading blank) stands for
RECURSIVE FieldVal(_, _, _)
FieldVal(s, p, w) ==
  IF w = 0 THEN 0
  ELSE LET c == Ch(s, p + w - 1)
       IN  (IF IsDigit(c) THEN DigitVal(c) ELSE 0) + 10 * FieldVal(s, p, w - 1)

\* strptime(s, "%Y-%m-%d") as a day ordinal; NoDate where it raises ValueError
\* (no match, unconverted data remaining, year 0, a day the month lacks).
ParseDate(s) ==
  IF ~(\A i \in 1..4 : IsDigit(Ch(s, i))) \/ Ch(s, 5) # "-" THEN NoDate
  ELSE LET mw == MonthWidth(s, 6)
           dp == 6 + mw + 1
           dw == DayWidth(s, dp)
           y  == FieldVal(s, 1, 4)
           m  == FieldVal(s, 6, mw)
           d  == FieldVal(s, dp, dw)
       IN  IF mw = 0 \/ dw = 0 THEN NoDate
           ELSE IF dp + dw - 1 # Len(s) THEN NoDate
           ELSE IF y < 1 \/ d > DaysInMonth(y, m) THEN NoDate
           ELSE Ordinal(y, m, d)

(***************************************************************************)
(* Documents.  A paper is a dict; `has` is the set of keys it holds, and a *)
(* read of a key it lacks raises KeyError.                                 *)
(***************************************************************************)

AllKeys == {"title", "summary", "authors", "published", "categories"}

Paper(t, s, a, p, c) ==
  [has |-> AllKeys, title |-> t, summary |-> s, authors |-> a,
   published |-> p, categories |-> c]

Without(paper, key) == [paper EXCEPT !.has = @ \ {key}]

\* Papers 1..10 hold every key, as fetch_recent_ai_papers builds them; papers
\* 11..15 each lack one.
Pool ==
  << Paper("A New Copilot for Code Generation", "We build a coding assistant...",
           <<"A. Smith (Google)">>, "2024-03-26T09:00:00Z", <<"cs.SE">>),
     Paper("Notes on Attention", "We contrast LLM and GPT outputs",
           <<"B. Lee">>, "2024-03-01T18:30:00Z", <<"cs.AI">>),
     Paper("Chatbot Design", "A chatbot for help desks",
           <<"C. Wu">>, "2023-01-10T08:00:00Z", <<"cs.HC">>),
     Paper("Graph Kernels", "A machine learning method",
           <<"D. Roy">>, "2023-05-05T08:00:00Z", <<"cs.LG">>),
     Paper("On Lattices", "A survey of lattice results",
           <<"E. Kim">>, "2023-05-06T08:00:00Z", <<"cs.AI">>),
     Paper("Render", "pipelines",
           <<"X (Google)", "Y (MIT)", "Z (Stanford)">>, "2024-01-01T00:00:00Z", <<"cs.AI">>),
     Paper("Feeds", "Personalization of feeds",
           <<"G. Ito">>, "2023-02-01T08:00:00Z", <<"cs.AI">>),
     Paper("LLM LLM LLM", "llm and llm and llm",
           <<"H. Ng">>, "2023-02-02T08:00:00Z", <<"cs.CL">>),
     Paper("LLM", "one mention",
           <<"H. Ng">>, "2023-02-02T08:00:00Z", <<"cs.CL">>),
     Paper("Storage Notes", "fast storage",
           << >>, "yesterday", << >>),
     Without(Paper("", "A copilot for code generation",
           <<"F. Diaz">>, "2024-03-20T08:00:00Z", <<"cs.SE">>), "title"),
     Without(Paper("Queues", "a python queue", <<"I. Oz">>, "", <<"cs.DC">>), "published"),
     Without(Paper("Heaps", "", <<"J. Au">>, "2023-03-03", <<"cs.DC">>), "summary"),
     Without(Paper("Tries", "a python trie", << >>, "2023-03-03", <<"cs.DC">>), "authors"),
     Without(Paper("Stacks", "a python stack", <<"K. Bo">>, "2023-03-03", << >>), "categories"),
     Paper("Edge Digest",
           "wasm web3 blockchain metaverse gitops mlops devops graphql websocket redis mongodb cdn oauth jwt gdpr bun latency",
           <<"P (OpenAI)", "Q (Anthropic)", "R (Berkeley)", "S (Harvard)", "T (Meta)", "U (Amazon)">>,
           "2022-01-01T00:00:00Z",
           <<"cs.AI", "cs.LG", "cs.CL", "cs.SE", "cs.HC", "cs.IR", "cs.DB", "cs.DC", "cs.PL">>) >>

PoolSize == Len(Pool)

(***************************************************************************)
(* The scorer: the body of the loop of filter_important_papers             *)
(***************************************************************************)

\* `for keyword in keywords: if keyword in text: score += w; if keyword in
\* title: score += tb`, one list entry after the other
RECURSIVE TierSum(_, _, _, _, _, _)
TierSum(keywords, i, text, title, w, tb) ==
  IF i > Len(keywords) THEN 0
  ELSE (IF Contains(keywords[i], text)
        THEN w + (IF Contains(keywords[i], title) THEN tb ELSE 0)
        ELSE 0)
       + TierSum(keywords, i + 1, text, title, w, tb)

\* The same loop without its break: the bonus for every match
EveryMatchBonus(xs, text, bonus) ==
  bonus * Cardinality({i \in 1..Len(xs) : Contains(xs[i], text)})

\* `for x in xs: if x in text: score += bonus; break`
FirstMatchBonus(xs, text, bonus) ==
  IF \E i \in 1..Len(xs) : Contains(xs[i], text) THEN bonus ELSE 0

\* `for category in paper["categories"]: if category in web_relevant: +2; break`
CategoryScore(categories) ==
  IF \E i \in 1..Len(categories) :
       \E j \in 1..Len(web_relevant_categories) : categories[i] = web_relevant_categories[j]
  THEN CategoryBonus ELSE 0

AuthorCountScore(n) ==
  IF TeamMin <= n /\ n <= TeamMax THEN TeamBonus
  ELSE IF n > CrowdMin THEN -CrowdPenalty
  ELSE 0

\* pub_date of line 216 as a day ordinal; NoDate when the try block is left
\* by an exception: a missing key, or a string strptime rejects.
PubDate(paper) ==
  IF "published" \notin paper.has THEN NoDate
  ELSE ParseDate(Prefix(paper.published, 10))

\* Evaluated once per pool document.
PoolPubDate == [d \in 1..PoolSize |-> PubDate(Pool[d])]

\* Lines 215-223 for pool document d when datetime.now() is on day nowDay
\* Two `if`s in place of `if` and `elif`: a recent paper gets both bonuses
RecencyScoreBoth(d, nowDay) ==
  IF PoolPubDate[d] = NoDate THEN 0
  ELSE (IF nowDay - PoolPubDate[d] <= RecentDays THEN RecentBonus ELSE 0)
       + (IF nowDay - PoolPubDate[d] <= QuarterDays THEN QuarterBonus ELSE 0)

\* Lines 214-223: the bonus of the paper's age in days; none when the date
\* does not parse
RecencyScore(d, nowDay) ==
  IF PoolPubDate[d] = NoDate THEN 0
  ELSE LET days_old == nowDay - PoolPubDate[d]
       IN  IF days_old <= RecentDays THEN RecentBonus
           ELSE IF days_old <= QuarterDays THEN QuarterBonus
           ELSE 0

\* The keys whose read is outside any try: a paper lacking one raises KeyError.
RequiredKeys == {"title", "summary", "authors", "categories"}

Raises(paper) == RequiredKeys \ paper.has # {}

\* Every contribution but the recency bonus, which alone reads the clock.
Contributions(paper) ==
  LET title_lower   == Lower(paper.title)
      summary_lower == Lower(paper.summary)
      authors_lower == Lower(JoinSpace(paper.authors))
      text_to_check == title_lower \o " " \o summary_lower
  IN  [high      |-> TierSum(high_priority_keywords, 1, text_to_check, title_lower,
                             HighWeight, HighTitleBonus),
       medium    |-> TierSum(medium_priority_keywords, 1, text_to_check, title_lower,
                             MediumWeight, MediumTitleBonus),
       basic     |-> TierSum(basic_keywords, 1, text_to_check, title_lower, BasicWeight, 0),
       affil     |-> FirstMatchBonus(prestigious_affiliations, authors_lower, AffiliationBonus),
       exclusion |-> -TierSum(exclusion_keywords, 1, text_to_check, title_lower,
                              ExclusionPenalty, 0),
       practical |-> TierSum(practical_keywords, 1, text_to_check, title_lower,
                             PracticalWeight, 0),
       category  |-> CategoryScore(paper.categories),
       team      |-> AuthorCountScore(Len(paper.authors))]

\* Evaluated once per pool document.
PoolContributions ==
  [d \in 1..PoolSize |-> IF Raises(Pool[d]) THEN [high |-> 0] ELSE Contributions(Pool[d])]

BaseScore(d) ==
  LET c == PoolContributions[d]
  IN  c.high + c.medium + c.basic + c.affil + c.exclusion + c.practical + c.category + c.team

\* `score` at line 226 for pool document d when the clock reads nowDay
Score(d, nowDay) == BaseScore(d) + RecencyScore(d, nowDay)

\* round(score, 2) on thousandths: to the nearest hundredth, halves to even
Round2(x) ==
  LET q == x \div 10
      r == x % 10
  IN  10 * (IF r > 5 \/ (r = 5 /\ q % 2 = 1) THEN q + 1 ELSE q)


(***************************************************************************)
(* The selector: filter_important_papers(papers, min_importance_score)     *)
(***************************************************************************)

\* No importance_score key on the paper / no value computed
NoScore == -999999

\* list.sort(key=..., reverse=True): a stable sort, descending; equal keys keep
\* the order they had.  xs is a list of positions, key[p] the sort key of p.
\* The entry at index i goes behind every entry of a larger key and every
\* earlier entry of the same key.

\* A sort that puts a paper before the earlier papers of equal score
SortDescUnstable(xs, key) ==
  LET n == Len(xs)
      Ahead(i) == {j \in 1..n : key[xs[j]] > key[xs[i]] \/ (key[xs[j]] = key[xs[i]] /\ j > i)}
  IN  [r \in 1..n |-> xs[CHOOSE i \in 1..n : Cardinality(Ahead(i)) = r - 1]]

SortDesc(xs, key) ==
  LET n == Len(xs)
      Ahead(i) == {j \in 1..n : key[xs[j]] > key[xs[i]] \/ (key[xs[j]] = key[xs[i]] /\ j < i)}
  IN  [r \in 1..n |-> xs[CHOOSE i \in 1..n : Cardinality(Ahead(i)) = r - 1]]

\* The first paper whose required keys are incomplete; Len + 1 when there is none
FirstRaising(batch) ==
  LET bad == {i \in 1..Len(batch) : Raises(Pool[batch[i]])}
  IN  IF bad = {} THEN Len(batch) + 1
      ELSE CHOOSE i \in bad : \A j \in bad : i <= j

\* The positions 1..n that satisfy keep, in order
Positions(n, keep) == SelectSeq([i \in 1..n |-> i], LAMBDA i : keep[i])

\* A threshold test that drops the papers that score exactly the threshold
AcceptsStrictly(score, min_importance_score) == score > min_importance_score

\* `if score >= min_importance_score` (line 226)
Accepts(score, min_importance_score) == score >= min_importance_score

\* One call.  batch: the papers (pool indices, one per position); attached: the
\* importance_score each paper object carries on entry; clock[i]: the day
\* datetime.now() returns while paper i is scored.  The loop stops at the first
\* paper that raises; papers accepted before it keep the score just assigned.
FilterImportantPapers(batch, attached, min_importance_score, clock) ==
  LET n        == Len(batch)
      bad      == FirstRaising(batch)
      computed == [i \in 1..n |-> IF i < bad THEN Score(batch[i], clock[i]) ELSE NoScore]
      keep     == [i \in 1..n |-> i < bad /\ Accepts(computed[i], min_importance_score)]
      after    == [i \in 1..n |-> IF keep[i] THEN Round2(computed[i]) ELSE attached[i]]
  IN  [threshold |-> min_importance_score,
       raised    |-> bad <= n,
       computed  |-> computed,
       attached  |-> after,
       result    |-> IF bad <= n THEN << >> ELSE SortDesc(Positions(n, keep), after)]


(***************************************************************************)
(* The trend aggregator: TrendAnalyzer.extract_trends                      *)
(***************************************************************************)

\* self.trend_keywords, in the dict's insertion order
trend_keywords ==
  << [category |-> "ai_ml", keywords |->
        << "llm", "large language model", "gpt", "transformer", "attention",
           "diffusion", "generative ai", "foundation model", "multimodal",
           "retrieval augmented generation", "rag", "fine-tuning", "rlhf",
           "chain of thought", "in-context learning", "few-shot", "zero-shot" >>],
     [category |-> "development", keywords |->
        << "code generation", "copilot", "coding assistant", "automated testing",
           "ci/cd", "devops", "microservices", "serverless", "containerization",
           "kubernetes", "api", "rest", "graphql", "websocket", "real-time" >>],
     [category |-> "web_tech", keywords |->
        << "react", "vue", "angular", "svelte", "nextjs", "nuxt", "remix",
           "typescript", "javascript", "node.js", "deno", "bun",
           "tailwind", "css", "html", "pwa", "spa", "ssr", "ssg" >>],
     [category |-> "data_infra", keywords |->
        << "database", "nosql", "sql", "postgresql", "mongodb", "redis",
           "elasticsearch", "vector database", "embedding", "search",
           "caching", "cdn", "cloud", "aws", "azure", "gcp", "edge computing" >>],
     [category |-> "security", keywords |->
        << "security", "authentication", "authorization", "oauth", "jwt",
           "encryption", "vulnerability", "privacy", "gdpr", "compliance",
           "zero trust", "devsecops", "penetration testing", "threat detection" >>],
     [category |-> "performance", keywords |->
        << "performance", "optimization", "monitoring", "observability",
           "metrics", "logging", "tracing", "alerting", "sli", "slo",
           "load balancing", "scalability", "high availability", "latency" >>] >>

emerging_keywords ==
  << "webassembly", "wasm", "web3", "blockchain", "metaverse", "ar", "vr",
     "quantum computing", "edge ai", "federated learning", "mlops",
     "chatops", "gitops", "platform engineering", "developer experience" >>

institutions ==
  << "google", "meta", "microsoft", "amazon", "openai", "anthropic",
     "stanford", "mit", "berkeley", "harvard", "carnegie mellon" >>

TopKeywords == 10
TopEmerging == 5
TopInstitutions == 5
TopAreas == 8

\* A counter that records that a key was seen, not how often
CounterAsSet(incs) ==
  LET firsts == SelectSeq([i \in 1..Len(incs) |-> i],
                          LAMBDA i : \A j \in 1..(i - 1) : incs[j] # incs[i])
  IN  [e \in 1..Len(firsts) |-> [key |-> incs[firsts[e]], count |-> 1]]

\* A Counter after `counter[key] += 1` for each key of incs in turn: its keys
\* in insertion order (the order of their first increment), each with the
\* number of its increments.
Counter(incs) ==
  LET firsts == SelectSeq([i \in 1..Len(incs) |-> i],
                          LAMBDA i : \A j \in 1..(i - 1) : incs[j] # incs[i])
  IN  [e \in 1..Len(firsts) |->
         [key |-> incs[firsts[e]],
          count |-> Cardinality({j \in 1..Len(incs) : incs[j] = incs[firsts[e]]})]]

\* Counter.most_common(n): sorted by count, descending, stable; the first n
MostCommon(counter, n) ==
  LET order == SortDesc([i \in 1..Len(counter) |-> i], [i \in 1..Len(counter) |-> counter[i].count])
  IN  Prefix([i \in 1..Len(order) |-> counter[order[i]]], n)

\* The entries of xs that occur in text, in the order of xs
Present(xs, text) == SelectSeq(xs, LAMBDA k : Contains(k, text))

\* `for inst in institutions: if inst in author_lower: ...; break`
FirstInstitution(author) ==
  LET hits == Present(institutions, Lower(author))
  IN  IF hits = << >> THEN << >> ELSE <<Head(hits)>>

RECURSIVE AuthorInstitutions(_)
AuthorInstitutions(authors) ==
  IF authors = << >> THEN << >>
  ELSE FirstInstitution(Head(authors)) \o AuthorInstitutions(Tail(authors))

\* What one paper adds to each counter, in the order the loop body adds it;
\* paper.get("authors", []) and paper.get("categories", []) default to empty.
PaperTrendHits(paper) ==
  LET text == Lower(paper.title \o " " \o paper.summary)
  IN  [keywords  |-> [c \in 1..Len(trend_keywords) |-> Present(trend_keywords[c].keywords, text)],
       emerging  |-> Present(emerging_keywords, text),
       inst      |-> IF "authors" \in paper.has THEN AuthorInstitutions(paper.authors) ELSE << >>,
       areas     |-> IF "categories" \in paper.has THEN paper.categories ELSE << >>]

\* paper["title"] and paper["summary"] are read without a default
TrendRaises(paper) == {"title", "summary"} \ paper.has # {}

\* Evaluated once per pool document.
PoolTrendHits ==
  [d \in 1..PoolSize |-> IF TrendRaises(Pool[d]) THEN [emerging |-> << >>]
                         ELSE PaperTrendHits(Pool[d])]

\* The increments the loop over the batch makes to one counter, in order:
\* those of paper 1, then those of paper 2, ...
RECURSIVE KeywordIncs(_, _, _)
KeywordIncs(batch, i, c) ==
  IF i > Len(batch) THEN << >>
  ELSE PoolTrendHits[batch[i]].keywords[c] \o KeywordIncs(batch, i + 1, c)

RECURSIVE AllCategories(_, _)
AllCategories(hits, c) ==
  IF c > Len(trend_keywords) THEN << >>
  ELSE hits.keywords[c] \o AllCategories(hits, c + 1)

RECURSIVE GlobalIncs(_, _)
GlobalIncs(batch, i) ==
  IF i > Len(batch) THEN << >>
  ELSE AllCategories(PoolTrendHits[batch[i]], 1) \o GlobalIncs(batch, i + 1)

RECURSIVE EmergingIncs(_, _)
EmergingIncs(batch, i) ==
  IF i > Len(batch) THEN << >>
  ELSE PoolTrendHits[batch[i]].emerging \o EmergingIncs(batch, i + 1)

RECURSIVE InstitutionIncs(_, _)
InstitutionIncs(batch, i) ==
  IF i > Len(batch) THEN << >>
  ELSE PoolTrendHits[batch[i]].inst \o InstitutionIncs(batch, i + 1)

RECURSIVE AreaIncs(_, _)
AreaIncs(batch, i) ==
  IF i > Len(batch) THEN << >>
  ELSE PoolTrendHits[batch[i]].areas \o AreaIncs(batch, i + 1)

\* extract_trends(papers): the report, or raised when a paper lacks title or
\* summary.  category_trends holds a counter per trend category, empty for a
\* category the dict has no entry for.
ExtractTrends(batch) ==
  IF \E i \in 1..Len(batch) : TrendRaises(Pool[batch[i]])
  THEN [raised |-> TRUE, total_papers |-> -1]
  ELSE [raised |-> FALSE,
        category_trends |->
          [c \in 1..Len(trend_keywords) |-> Counter(KeywordIncs(batch, 1, c))],
        top_keywords |-> MostCommon(Counter(GlobalIncs(batch, 1)), TopKeywords),
        emerging_tech |-> MostCommon(Counter(EmergingIncs(batch, 1)), TopEmerging),
        active_institutions |-> MostCommon(Counter(InstitutionIncs(batch, 1)), TopInstitutions),
        research_areas |-> MostCommon(Counter(AreaIncs(batch, 1)), TopAreas),
        total_papers |-> Len(batch)]

(***************************************************************************)
(* The texts of trend_analyzer.py: generate_trend_summary and              *)
(* detect_trend_changes.  A text is the list of its lines, which the code  *)
(* joins with "\n"; the emoji and Japanese literals of the source are      *)
(* written as ASCII glosses, the formatted parts as the code formats them. *)
(***************************************************************************)

UpperChar(c) ==
  CASE c = "a" -> "A" [] c = "b" -> "B" [] c = "c" -> "C" [] c = "d" -> "D"
    [] c = "e" -> "E" [] c = "f" -> "F" [] c = "g" -> "G" [] c = "h" -> "H"
    [] c = "i" -> "I" [] c = "j" -> "J" [] c = "k" -> "K" [] c = "l" -> "L"
    [] c = "m" -> "M" [] c = "n" -> "N" [] c = "o" -> "O" [] c = "p" -> "P"
    [] c = "q" -> "Q" [] c = "r" -> "R" [] c = "s" -> "S" [] c = "t" -> "T"
    [] c = "u" -> "U" [] c = "v" -> "V" [] c = "w" -> "W" [] c = "x" -> "X"
    [] c = "y" -> "Y" [] c = "z" -> "Z" [] OTHER -> c

\* A letter: a character that has an upper and a lower case
IsCased(c) == UpperChar(c) # c \/ LowerChar(c) # c

\* str.title(): a letter that follows no letter becomes upper case, every
\* other letter lower case ("ci/cd" -> "Ci/Cd", "node.js" -> "Node.Js")
RECURSIVE TitleFrom(_, _)
TitleFrom(s, i) ==
  IF i > Len(s) THEN ""
  ELSE (IF i = 1 \/ ~IsCased(SubSeq(s, i - 1, i - 1))
        THEN UpperChar(SubSeq(s, i, i))
        ELSE LowerChar(SubSeq(s, i, i)))
       \o TitleFrom(s, i + 1)

Title(s) == TitleFrom(s, 1)

\* category_names of generate_trend_summary, in the dict's order
category_names ==
  << [category |-> "ai_ml",       name |-> "[robot] AI/ML"],
     [category |-> "development", name |-> "[gear] Development"],
     [category |-> "web_tech",    name |-> "[globe] Web"],
     [category |-> "data_infra",  name |-> "[disk] Data/Infra"],
     [category |-> "security",    name |-> "[lock] Security"],
     [category |-> "performance", name |-> "[bolt] Performance"] >>

\* area_names of generate_trend_summary
area_names ==
  << [tag |-> "cs.AI", name |-> "Artificial intelligence"],
     [tag |-> "cs.LG", name |-> "Machine learning"],
     [tag |-> "cs.CL", name |-> "Natural language processing"],
     [tag |-> "cs.SE", name |-> "Software engineering"],
     [tag |-> "cs.HC", name |-> "HCI"],
     [tag |-> "cs.IR", name |-> "Information retrieval"],
     [tag |-> "cs.DB", name |-> "Databases"],
     [tag |-> "cs.DC", name |-> "Distributed systems"],
     [tag |-> "cs.PL", name |-> "Programming languages"],
     [tag |-> "cs.CR", name |-> "Cryptography and security"],
     [tag |-> "cs.CV", name |-> "Computer vision"] >>

\* The cuts the texts make in the report's lists
SummaryKeywords == 5
SummaryAreas == 5
ChangeKeywords == 5

\* f"({count}件)"
CountText(count) == "(" \o ToString(count) \o " papers)"

\* A header that leaves the number out when it is zero
SummaryHeaderFalsy(total_papers) ==
  "[chart] **Today's research trends** (of "
  \o (IF total_papers = 0 THEN "" ELSE ToString(total_papers)) \o " papers)"

\* The header line, which carries trends['total_papers']
SummaryHeader(total_papers) ==
  "[chart] **Today's research trends** (of " \o ToString(total_papers) \o " papers)"

\* trends["category_trends"][category], empty when the dict has no such key
CategoryCounter(t, category) ==
  LET cs == {c \in 1..Len(trend_keywords) : trend_keywords[c].category = category}
  IN  IF cs = {} THEN << >> ELSE t.category_trends[CHOOSE c \in cs : TRUE]

\* sum(counter.values())
RECURSIVE CounterTotal(_, _)
CounterTotal(counter, i) ==
  IF i > Len(counter) THEN 0 ELSE counter[i].count + CounterTotal(counter, i + 1)

\* area_names.get(area, area)
DisplayName(area) ==
  LET hits == {i \in 1..Len(area_names) : area_names[i].tag = area}
  IN  IF hits = {} THEN area ELSE area_names[CHOOSE i \in hits : TRUE].name

\* "  * **{key.title()}** ({count}件)" for each entry of a list
Bullets(list) ==
  [i \in 1..Len(list) |-> "  * **" \o Title(list[i].key) \o "** " \o CountText(list[i].count)]

\* generate_trend_summary(trends): summary_parts
GenerateTrendSummary(t) ==
  LET top  == Prefix(t.top_keywords, SummaryKeywords)
      cats == SelectSeq(category_names, LAMBDA cn : CategoryCounter(t, cn.category) # << >>)
      areas == Prefix(t.research_areas, SummaryAreas)
  IN  << SummaryHeader(t.total_papers), "" >>
      \o (IF t.top_keywords = << >> THEN << >>
          ELSE << "[fire] **Keywords TOP5:**" >>
               \o [i \in 1..Len(top) |->
                     "  " \o ToString(i) \o ". **" \o Title(top[i].key) \o "** "
                     \o CountText(top[i].count)])
      \o << "" >>
      \o << "[graph] **Trends by field:**" >>
      \o [i \in 1..Len(cats) |->
            "  " \o cats[i].name \o ": **"
            \o Title(MostCommon(CategoryCounter(t, cats[i].category), 1)[1].key) \o "** "
            \o CountText(CounterTotal(CategoryCounter(t, cats[i].category), 1))]
      \o << "" >>
      \o (IF t.emerging_tech = << >> THEN << >>
          ELSE << "[rocket] **Emerging technology:**" >> \o Bullets(t.emerging_tech) \o << "" >>)
      \o (IF t.active_institutions = << >> THEN << >>
          ELSE << "[building] **Active institutions:**" >> \o Bullets(t.active_institutions)
               \o << "" >>)
      \o (IF t.research_areas = << >> THEN << >>
          ELSE << "[books] **Active research areas:**" >>
               \o [i \in 1..Len(areas) |->
                     "  * **" \o DisplayName(areas[i].key) \o "** " \o CountText(areas[i].count)])

\* The count the prior report's top_keywords list holds for keyword, 0 when
\* the list does not hold it (lines 199-203)
HistoricalCount(historical_top, keyword) ==
  LET hits == {h \in 1..Len(historical_top) : historical_top[h].key = keyword}
  IN  IF hits = {} THEN 0 ELSE historical_top[CHOOSE h \in hits : TRUE].count

\* A comparison that reports a fall as no change
ChangeLineNoFall(entry, historical_count) ==
  IF historical_count = 0
  THEN << "  [new] **" \o Title(entry.key) \o "** (new)" >>
  ELSE IF entry.count > historical_count
  THEN << "  [up] **" \o Title(entry.key) \o "** (+"
          \o ToString(entry.count - historical_count) \o " papers)" >>
  ELSE << >>

\* The line lines 205-210 append for one keyword of the current top list, if any
ChangeLine(entry, historical_count) ==
  IF historical_count = 0
  THEN << "  [new] **" \o Title(entry.key) \o "** (new)" >>
  ELSE IF entry.count > historical_count
  THEN << "  [up] **" \o Title(entry.key) \o "** (+"
          \o ToString(entry.count - historical_count) \o " papers)" >>
  ELSE IF entry.count < historical_count
  THEN << "  [down] **" \o Title(entry.key) \o "** (-"
          \o ToString(historical_count - entry.count) \o " papers)" >>
  ELSE << >>

RECURSIVE ChangeLines(_, _, _)
ChangeLines(current_top, historical_top, i) ==
  IF i > Len(current_top) THEN << >>
  ELSE ChangeLine(current_top[i], HistoricalCount(historical_top, current_top[i].key))
       \o ChangeLines(current_top, historical_top, i + 1)

NotEnoughData == << "[calendar] **Trend changes**: not enough data, comparison starts next time" >>
NoBigChange == << "[calendar] **Trend changes**: no big change" >>
ChangesHeader == "[calendar] **Trend changes:**"

\* Lines 196-215 on the two reports: the lines of the changes, or the line
\* that says there are none
CompareTrends(current_trends, historical_trends) ==
  IF current_trends.raised \/ historical_trends.raised
  THEN [raised |-> TRUE, text |-> << >>]
  ELSE [raised |-> FALSE,
        text |-> IF ChangeLines(Prefix(current_trends.top_keywords, ChangeKeywords),
                                historical_trends.top_keywords, 1) # << >>
                 THEN <<ChangesHeader>>
                      \o ChangeLines(Prefix(current_trends.top_keywords, ChangeKeywords),
                                     historical_trends.top_keywords, 1)
                 ELSE NoBigChange]

\* detect_trend_changes(current_papers, historical_papers): the text, or raised
\* when extract_trends raises on either batch.  Each report is computed once.
DetectTrendChanges(current_papers, historical) ==
  IF historical = << >> THEN [raised |-> FALSE, text |-> NotEnoughData]
  ELSE CHOOSE r \in {CompareTrends(c, h) : c \in {ExtractTrends(current_papers)},
                                           h \in {ExtractTrends(historical)}} : TRUE

(***************************************************************************)
(* State                                                                   *)
(***************************************************************************)

VARIABLES
  pc,                \* where main() stands; "lib" / "trend": direct calls of the library
  env,               \* the environment variables that are set
  papers,            \* the fetched batch: one pool index per paper object
  importance_score,  \* paper["importance_score"] of each paper object, NoScore when absent
  important_papers,  \* main's important_papers: positions in papers
  today,             \* the day datetime.now() returns
  ticks,             \* midnights passed so far
  passes,            \* one record per call of filter_important_papers, in call order
  summaries,         \* what summarize_multiple_papers returned
  trends,            \* what extract_trends returned
  slack,             \* the messages handed to SlackClient.send_message, with its answers
  retval,            \* main's return value, "none" while it runs
  trend_summary,     \* what generate_trend_summary returned: the lines of the text
  historical_papers, \* the prior batch handed to detect_trend_changes
  trend_changes      \* what detect_trend_changes returned

vars == <<pc, env, papers, importance_score, important_papers, today, ticks,
          passes, summaries, trends, slack, retval,
          trend_summary, historical_papers, trend_changes>>

\* Bounds of the model
MaxFetch == 6
MaxBatch == 3
MaxTicks == 1
MaxCalls == 2

\* main's thresholds and cuts, in thousandths where they are scores
StrictScore == 5000
MinViable == 3
RelaxedScore == 3000
MinimalScore == 1000
LastResortCap == 5
TopPapers == 3
MaxPapers == 5

\* The day the run starts: 2024-03-31
Day0 == Ordinal(2024, 3, 31)

RequiredEnv == {"OPENAI_API_KEY", "SLACK_WEBHOOK_URL"}

\* The papers the feed serves in the runs of main(): each holds every key
FetchPool == {1, 2, 4, 5, 6}

SeqsUpTo(S, n) == UNION {[1..k -> S] : k \in 0..n}

NoTrends == [raised |-> FALSE, total_papers |-> -1]

\* No text yet: every text the code builds has a line
NoText == << >>
NoChanges == [raised |-> FALSE, text |-> NoText]

InitCommon ==
  /\ importance_score = [i \in 1..Len(papers) |-> NoScore]
  /\ important_papers = << >>
  /\ today = Day0
  /\ ticks = 0
  /\ passes = << >>
  /\ summaries = << >>
  /\ trends = NoTrends
  /\ slack = << >>
  /\ retval = "none"
  /\ trend_summary = NoText
  /\ trend_changes = NoChanges

(***************************************************************************)
(* main()                                                                  *)
(***************************************************************************)

Init ==
  /\ pc = "start"
  /\ env \in SUBSET RequiredEnv
  /\ papers = << >>
  /\ historical_papers = << >>
  /\ InitCommon

\* datetime.now() while paper i of n is scored, when midnight passes after k papers
ClockFor(n, k) == [i \in 1..n |-> IF i <= k THEN today ELSE today + 1]

TickChoices(n) == IF ticks < MaxTicks THEN 0..n ELSE {n}

\* slack_client.send_error_notification(...): posts, and main ignores the answer
Notified(ok) == Append(slack, [kind |-> "error", ok |-> ok])

\* return False, with or without an error notification first
ReturnFalse(notify) ==
  /\ \E ok \in BOOLEAN : slack' = (IF notify THEN Notified(ok) ELSE slack)
  /\ retval' = "False"
  /\ pc' = "done"

\* The state a call of filter_important_papers leaves, apart from its result
Called(r, n, k) ==
  /\ importance_score' = r.attached
  /\ passes' = Append(passes, r)
  /\ today' = IF k < n THEN today + 1 ELSE today
  /\ ticks' = IF k < n THEN ticks + 1 ELSE ticks

\* Lines 23-29: the required environment variables
Start ==
  /\ pc = "start"
  /\ \/ /\ env # RequiredEnv
        /\ retval' = "False"
        /\ pc' = "done"
     \/ /\ env = RequiredEnv
        /\ retval' = retval
        /\ pc' = "clients"
  /\ UNCHANGED <<env, papers, importance_score, important_papers, today, ticks,
                 passes, summaries, trends, slack>>
  /\ UNCHANGED <<trend_summary, historical_papers, trend_changes>>

\* Lines 33-36: the clients are built inside the try.  openai.OpenAI(...) may
\* raise; the handler of lines 110-119 then finds slack_client unbound, its
\* own NameError is swallowed, and main returns False with nothing sent.
Construct ==
  /\ pc = "clients"
  /\ \/ ReturnFalse(FALSE)
     \/ /\ pc' = "fetch"
        /\ UNCHANGED <<slack, retval>>
  /\ UNCHANGED <<env, papers, importance_score, important_papers, today, ticks,
                 passes, summaries, trends>>
  /\ UNCHANGED <<trend_summary, historical_papers, trend_changes>>

\* Lines 41-48: fetch_recent_ai_papers; an empty batch ends the run
Fetch ==
  /\ pc = "fetch"
  /\ \E batch \in SeqsUpTo(FetchPool, MaxFetch) :
       /\ papers' = batch
       /\ importance_score' = [i \in 1..Len(batch) |-> NoScore]
       /\ \/ /\ batch = << >>
             /\ ReturnFalse(TRUE)
          \/ /\ batch # << >>
             /\ pc' = "strict"
             /\ UNCHANGED <<slack, retval>>
  /\ UNCHANGED <<env, important_papers, today, ticks, passes, summaries, trends>>
  /\ UNCHANGED <<trend_summary, historical_papers, trend_changes>>

\* Line 51: the strict pass.  An exception goes to the handler of lines
\* 110-119: an error notification, its own failure ignored, and False.  A
\* batch that passes here raises in no later pass: what raises is the batch.
StrictPass ==
  /\ pc = "strict"
  /\ \E k \in TickChoices(Len(papers)) :
       \E r \in {FilterImportantPapers(papers, importance_score, StrictScore,
                                         ClockFor(Len(papers), k))} :
           /\ Called(r, Len(papers), k)
           /\ IF r.raised
              THEN ReturnFalse(TRUE) /\ UNCHANGED important_papers
              ELSE /\ important_papers' = r.result
                   /\ pc' = "relaxed"
                   /\ UNCHANGED <<slack, retval>>
  /\ UNCHANGED <<env, papers, summaries, trends>>
  /\ UNCHANGED <<trend_summary, historical_papers, trend_changes>>

\* A test that also relaxes when exactly the minimum was found
TooFewOrJustEnough(selected) == Len(selected) <= MinViable

\* `if len(important_papers) < 3` (line 60)
TooFew(selected) == Len(selected) < MinViable

\* Lines 60-63: too few papers, so the relaxed pass
RelaxedPass ==
  /\ pc = "relaxed"
  /\ \/ /\ TooFew(important_papers)
        /\ \E k \in TickChoices(Len(papers)) :
             \E r \in {FilterImportantPapers(papers, importance_score, RelaxedScore,
                                               ClockFor(Len(papers), k))} :
                 /\ Called(r, Len(papers), k)
                 /\ important_papers' = r.result
     \/ /\ ~TooFew(important_papers)
        /\ UNCHANGED <<importance_score, important_papers, today, ticks, passes>>
  /\ pc' = "minimal"
  /\ UNCHANGED <<env, papers, summaries, trends, slack, retval>>
  /\ UNCHANGED <<trend_summary, historical_papers, trend_changes>>

\* Lines 65-75: nothing yet, so the minimal pass cut to five; nothing still ends the run
MinimalPass ==
  /\ pc = "minimal"
  /\ \/ /\ important_papers = << >>
        /\ \E k \in TickChoices(Len(papers)) :
             \E r \in {FilterImportantPapers(papers, importance_score, MinimalScore,
                                               ClockFor(Len(papers), k))} :
                 /\ Called(r, Len(papers), k)
                 /\ important_papers' = Prefix(r.result, LastResortCap)
                 /\ \/ /\ Prefix(r.result, LastResortCap) = << >>
                       /\ ReturnFalse(TRUE)
                    \/ /\ Prefix(r.result, LastResortCap) # << >>
                       /\ pc' = "summarize"
                       /\ UNCHANGED <<slack, retval>>
     \/ /\ important_papers # << >>
        /\ pc' = "summarize"
        /\ UNCHANGED <<importance_score, important_papers, today, ticks, passes, slack, retval>>
  /\ UNCHANGED <<env, papers, summaries, trends>>
  /\ UNCHANGED <<trend_summary, historical_papers, trend_changes>>

\* summarize_multiple_papers(top_papers): one summary per paper, the API's text
\* or the fallback's, for the first max_papers papers; a summary is modelled
\* by the paper it is of.
SummarizeMultiplePapers(top) == Prefix(top, MaxPapers)

\* Lines 78-88
Summarize ==
  /\ pc = "summarize"
  /\ summaries' = SummarizeMultiplePapers(Prefix(important_papers, TopPapers))
  /\ IF SummarizeMultiplePapers(Prefix(important_papers, TopPapers)) = << >>
     THEN ReturnFalse(TRUE)
     ELSE pc' = "trends" /\ UNCHANGED <<slack, retval>>
  /\ UNCHANGED <<env, papers, importance_score, important_papers, today, ticks, passes, trends>>
  /\ UNCHANGED <<trend_summary, historical_papers, trend_changes>>

\* Lines 92-93: the trends of the whole batch, and their text
Trends ==
  /\ pc = "trends"
  /\ \E t \in {ExtractTrends(papers)} :
       /\ trends' = t
       /\ trend_summary' = GenerateTrendSummary(t)
  /\ pc' = "deliver"
  /\ UNCHANGED <<env, papers, importance_score, important_papers, today, ticks,
                 passes, summaries, slack, retval, historical_papers, trend_changes>>

\* A delivery whose answer main does not look at
DeliverUnchecked ==
  /\ pc = "deliver"
  /\ \E success \in BOOLEAN :
       /\ slack' = Append(slack, [kind |-> "report", ok |-> success])
       /\ retval' = "True"
  /\ pc' = "done"
  /\ UNCHANGED <<env, papers, importance_score, important_papers, today, ticks,
                 passes, summaries, trends>>
  /\ UNCHANGED <<trend_summary, historical_papers, trend_changes>>

\* Lines 96-108: the combined report goes to Slack; its answer is main's
Deliver ==
  /\ pc = "deliver"
  /\ \E success \in BOOLEAN :
       /\ slack' = Append(slack, [kind |-> "report", ok |-> success])
       /\ retval' = IF success THEN "True" ELSE "False"
  /\ pc' = "done"
  /\ UNCHANGED <<env, papers, importance_score, important_papers, today, ticks,
                 passes, summaries, trends>>
  /\ UNCHANGED <<trend_summary, historical_papers, trend_changes>>

Next ==
  \/ Start
  \/ Construct
  \/ Fetch
  \/ StrictPass
  \/ RelaxedPass
  \/ MinimalPass
  \/ Summarize
  \/ Trends
  \/ Deliver

Spec == Init /\ [][Next]_vars

(***************************************************************************)
(* Direct calls of filter_important_papers on one batch                    *)
(***************************************************************************)

\* The thresholds the calls are made with
Thresholds == {MinimalScore, RelaxedScore, 4750, StrictScore}

InitSelector ==
  /\ pc = "lib"
  /\ env = RequiredEnv
  /\ papers \in SeqsUpTo(1..PoolSize, MaxBatch)
  /\ historical_papers = << >>
  /\ InitCommon

SelectorCall ==
  /\ pc = "lib"
  /\ Len(passes) < MaxCalls
  /\ \E min_importance_score \in Thresholds, k \in TickChoices(Len(papers)) :
       \E r \in {FilterImportantPapers(papers, importance_score, min_importance_score,
                                         ClockFor(Len(papers), k))} :
           /\ Called(r, Len(papers), k)
           /\ important_papers' = r.result
  /\ UNCHANGED <<pc, env, papers, summaries, trends, slack, retval>>
  /\ UNCHANGED <<trend_summary, historical_papers, trend_changes>>

NextSelector == SelectorCall

SpecSelector == InitSelector /\ [][NextSelector]_vars

(***************************************************************************)
(* Direct calls of extract_trends                                          *)
(***************************************************************************)

InitTrend ==
  /\ pc = "trend"
  /\ env = RequiredEnv
  /\ papers \in SeqsUpTo(1..PoolSize, MaxBatch)
  /\ historical_papers = << >>
  /\ InitCommon

ExtractTrendsCall ==
  /\ pc = "trend"
  /\ trends = NoTrends
  /\ trends' = ExtractTrends(papers)
  /\ UNCHANGED <<pc, env, papers, importance_score, important_papers, today, ticks,
                 passes, summaries, slack, retval>>
  /\ UNCHANGED <<trend_summary, historical_papers, trend_changes>>

NextTrend == ExtractTrendsCall

SpecTrend == InitTrend /\ [][NextTrend]_vars


(***************************************************************************)
(* The library on one batch: filter_important_papers, extract_trends and   *)
(* generate_trend_summary, each called once                                *)
(***************************************************************************)

InitAnalysis ==
  /\ pc = "select"
  /\ env = RequiredEnv
  /\ papers \in SeqsUpTo(1..PoolSize, MaxBatch)
  /\ historical_papers = << >>
  /\ InitCommon

\* filter_important_papers(papers, min_importance_score)
SelectStep ==
  /\ pc = "select"
  /\ \E min_importance_score \in Thresholds, k \in TickChoices(Len(papers)) :
       \E r \in {FilterImportantPapers(papers, importance_score, min_importance_score,
                                         ClockFor(Len(papers), k))} :
           /\ Called(r, Len(papers), k)
           /\ important_papers' = r.result
  /\ pc' = "extract"
  /\ UNCHANGED <<env, papers, summaries, trends, slack, retval>>
  /\ UNCHANGED <<trend_summary, historical_papers, trend_changes>>

\* extract_trends(papers); generate_trend_summary is for the report it returns
ExtractStep ==
  /\ pc = "extract"
  /\ \E t \in {ExtractTrends(papers)} :
       /\ trends' = t
       /\ pc' = IF t.raised THEN "end" ELSE "render"
  /\ UNCHANGED <<env, papers, importance_score, important_papers, today, ticks,
                 passes, summaries, slack, retval>>
  /\ UNCHANGED <<trend_summary, historical_papers, trend_changes>>

\* generate_trend_summary(trends)
RenderStep ==
  /\ pc = "render"
  /\ trend_summary' = GenerateTrendSummary(trends)
  /\ pc' = "end"
  /\ UNCHANGED <<env, papers, importance_score, important_papers, today, ticks,
                 passes, summaries, trends, slack, retval>>
  /\ UNCHANGED <<historical_papers, trend_changes>>

NextAnalysis ==
  \/ SelectStep
  \/ ExtractStep
  \/ RenderStep

SpecAnalysis == InitAnalysis /\ [][NextAnalysis]_vars

(***************************************************************************)
(* Direct calls of detect_trend_changes                                    *)
(***************************************************************************)

\* The papers the current and the prior batch are drawn from
ChangePool == {1, 2, 8, 16}

InitChanges ==
  /\ pc = "changes"
  /\ env = RequiredEnv
  /\ papers \in SeqsUpTo(ChangePool, MaxBatch)
  /\ historical_papers \in SeqsUpTo(ChangePool, MaxBatch)
  /\ InitCommon

DetectTrendChangesCall ==
  /\ pc = "changes"
  /\ trend_changes = NoChanges
  /\ trend_changes' = DetectTrendChanges(papers, historical_papers)
  /\ UNCHANGED <<pc, env, papers, importance_score, important_papers, today, ticks,
                 passes, summaries, trends, slack, retval>>
  /\ UNCHANGED <<trend_summary, historical_papers>>

NextChanges == DetectTrendChangesCall

SpecChanges == InitChanges /\ [][NextChanges]_vars


(***************************************************************************)
(* Properties                                                              *)
(***************************************************************************)

\* The calls of filter_important_papers that returned
Returned == {p \in 1..Len(passes) : ~passes[p].raised}

\* xs, a list of positions, is in descending order of key
Descending(xs, key) == \A i, j \in 1..Len(xs) : i < j => key[xs[i]] >= key[xs[j]]

\* C1: the list filter_important_papers returns is sorted by importance_score,
\* descending, and two returned papers of equal score stand in the order they
\* have in the input list.
C1_SortedStable ==
  \A p \in Returned :
    LET r == passes[p].result
        score == passes[p].attached
    IN  \A i, j \in 1..Len(r) :
          i < j => \/ score[r[i]] > score[r[j]]
                   \/ (score[r[i]] = score[r[j]] /\ r[i] < r[j])

\* A call returned three papers, two of one score and in input order, and the
\* sort moved a later paper of a higher score to the front.
C1_Witness ==
  \E p \in Returned :
    LET r == passes[p].result
        score == passes[p].attached
    IN  /\ Len(r) = 3
        /\ r[1] > r[2]
        /\ score[r[1]] > score[r[2]]
        /\ score[r[2]] = score[r[3]]
        /\ papers[r[2]] # papers[r[3]]

\* main's cascade has ended with a selection or with none
CascadeDone ==
  /\ pc \in {"summarize", "trends", "deliver", "done"}
  /\ passes # << >>
  /\ Returned = 1..Len(passes)

\* C2: in main(), the final selection is the strict (5.0) result when that has
\* at least 3 papers; otherwise the relaxed (3.0) result when that is not
\* empty; otherwise the first 5 papers of the minimal (1.0) result; and it is
\* in descending order of score.
C2_CascadeSelection ==
  CascadeDone =>
    /\ passes[1].threshold = 5000
    /\ IF Len(passes[1].result) >= 3
       THEN Len(passes) = 1 /\ important_papers = passes[1].result
       ELSE /\ Len(passes) >= 2
            /\ passes[2].threshold = 3000
            /\ IF passes[2].result # << >>
               THEN Len(passes) = 2 /\ important_papers = passes[2].result
               ELSE /\ Len(passes) = 3
                    /\ passes[3].threshold = 1000
                    /\ important_papers = Prefix(passes[3].result, 5)
    /\ Descending(important_papers, importance_score)

\* The cascade fell through to the minimal pass, which returned more than five
\* papers, and the selection is its first five.
C2_Witness ==
  /\ CascadeDone
  /\ Len(passes) = 3
  /\ Len(passes[3].result) > 5
  /\ Len(important_papers) = 5


\* C3: for thresholds lo <= hi, every paper a call at hi returned is returned
\* by a call at lo over the same batch, and the result at lo is in descending
\* order of score.
C3_LowerThresholdSuperset ==
  \A p, q \in Returned :
    passes[q].threshold <= passes[p].threshold =>
      /\ \A i \in 1..Len(passes[p].result) :
           \E j \in 1..Len(passes[q].result) : passes[q].result[j] = passes[p].result[i]
      /\ Descending(passes[q].result, passes[q].attached)

\* The cascade's own pair, strict then relaxed, in main(): the relaxed result
\* holds every paper of the strict result.
C3_CascadeSuperset ==
  (Len(passes) >= 2 /\ Returned = 1..Len(passes)) =>
    \A i \in 1..Len(passes[1].result) :
      \E j \in 1..Len(passes[2].result) : passes[2].result[j] = passes[1].result[i]

\* C4: for every non-empty fetched batch, the cascade in main() ends with at
\* least one selected paper and goes on to summarization.
C4_CascadeNeverEmpty ==
  (pc = "done" /\ papers # << >>) => summaries # << >>

\* C4, amended: the cascade ends with no selected paper exactly when the
\* relaxed and the minimal pass both ran and every paper scored below 3.0 in
\* the relaxed pass and below 1.0 in the minimal pass; then main sends an
\* error notification and returns False without summarizing.  Otherwise it
\* goes on to summarize the first three selected papers.
C4_EmptyOnlyWhenAllBelowMinimal ==
  CascadeDone =>
    LET allBelow == /\ Len(passes) = 3
                    /\ \A i \in 1..Len(papers) :
                         passes[2].computed[i] < 3000 /\ passes[3].computed[i] < 1000
    IN  /\ (important_papers = << >>) <=> allBelow
        /\ allBelow => /\ pc = "done"
                       /\ retval = "False"
                       /\ summaries = << >>
                       /\ slack # << >>
                       /\ slack[Len(slack)].kind = "error"
        /\ (~allBelow /\ pc # "summarize") => summaries = Prefix(important_papers, 3)

\* A batch whose best paper scores exactly 1.0 went through all three passes
\* and was summarized.
C4_Witness ==
  /\ CascadeDone
  /\ Len(passes) = 3
  /\ pc = "trends"
  /\ summaries # << >>
  /\ \A i \in 1..Len(papers) : passes[3].computed[i] <= 1000

\* C5: within one run of main(), every paper gets the same score in every pass
\* of the cascade, whenever the clock is read.
C5_SameScoreEveryPass ==
  \A p, q \in 1..Len(passes) :
    \A i \in 1..Len(papers) : passes[p].computed[i] = passes[q].computed[i]

\* The sum the claim describes for one tier: weight, and title bonus, once per
\* distinct phrase of the tier that the text holds
DistinctPhraseSum(keywords, text, title, w, tb) ==
  LET phrases == {keywords[i] : i \in 1..Len(keywords)}
  IN  w * Cardinality({k \in phrases : Contains(k, text)})
      + tb * Cardinality({k \in phrases : Contains(k, text) /\ Contains(k, title)})

\* What C6 expects of each tier, per pool paper that can be scored
PoolDistinctSums ==
  [d \in 1..PoolSize |->
     IF Raises(Pool[d]) THEN [high |-> 0, medium |-> 0, basic |-> 0]
     ELSE LET title == Lower(Pool[d].title)
              text  == title \o " " \o Lower(Pool[d].summary)
          IN  [high   |-> DistinctPhraseSum(high_priority_keywords, text, title,
                                            HighWeight, HighTitleBonus),
               medium |-> DistinctPhraseSum(medium_priority_keywords, text, title,
                                            MediumWeight, MediumTitleBonus),
               basic  |-> DistinctPhraseSum(basic_keywords, text, title, BasicWeight, 0)]]

\* C6: for every scored paper and every tier, each distinct phrase of the tier
\* that the text holds adds the tier's weight, and its title bonus, at most once.
C6_PhraseCountsOnce ==
  \A p \in 1..Len(passes) :
    \A i \in 1..Len(papers) :
      passes[p].computed[i] # NoScore =>
        /\ PoolContributions[papers[i]].high = PoolDistinctSums[papers[i]].high
        /\ PoolContributions[papers[i]].medium = PoolDistinctSums[papers[i]].medium
        /\ PoolContributions[papers[i]].basic = PoolDistinctSums[papers[i]].basic

\* C7: scoring and selection never raise: filter_important_papers completes
\* for papers with missing or malformed fields.
C7_NeverRaises == \A p \in 1..Len(passes) : ~passes[p].raised

\* C8: when the delivery of the final report fails, main sends an error
\* notification before the run ends.
C8_DeliveryFailureNotified ==
  pc = "done" =>
    \A i \in 1..Len(slack) :
      (slack[i].kind = "report" /\ ~slack[i].ok) =>
        \E j \in (i + 1)..Len(slack) : slack[j].kind = "error"

\* The importance_score each paper carried when call p began
AttachedBefore(p) ==
  IF p = 1 THEN [i \in 1..Len(papers) |-> NoScore] ELSE passes[p - 1].attached

\* C9: after a call returns, every input paper, those below the threshold
\* too, carries the score computed for it in that call.
C9_EveryPaperCarriesScore ==
  \A p \in Returned :
    \A i \in 1..Len(papers) : passes[p].attached[i] = Round2(passes[p].computed[i])

\* C9, amended: after a call returns, every paper whose score reached the
\* threshold carries that score rounded to two decimals, and every other paper
\* carries what it carried before the call: nothing, or an earlier call's score.
C9_OnlyAcceptedCarryScore ==
  \A p \in Returned :
    \A i \in 1..Len(papers) :
      IF passes[p].computed[i] >= passes[p].threshold
      THEN passes[p].attached[i] = Round2(passes[p].computed[i])
      ELSE passes[p].attached[i] = AttachedBefore(p)[i]

\* A second call left a paper below its threshold with the score of the
\* first call, which the second call did not compute, beside a paper it accepted.
C9_Witness ==
  /\ Len(passes) = 2
  /\ Returned = {1, 2}
  /\ \E i, j \in 1..Len(papers) :
       /\ passes[2].computed[i] < passes[2].threshold
       /\ passes[2].attached[i] # NoScore
       /\ passes[2].attached[i] # passes[2].computed[i]
       /\ passes[2].computed[j] >= passes[2].threshold

\* The lowercase title and abstract of each pool paper that has both
PoolText ==
  [d \in 1..PoolSize |->
     IF TrendRaises(Pool[d]) THEN ""
     ELSE Lower(Pool[d].title \o " " \o Pool[d].summary)]

\* C10: after extract_trends, the count reported for each trend keyword is the
\* number of papers whose lowercase title and abstract hold the keyword, so no
\* count exceeds total_papers.
C10_KeywordCountsPapers ==
  (pc = "trend" /\ trends # NoTrends /\ ~trends.raised) =>
    \A e \in 1..Len(trends.top_keywords) :
      /\ trends.top_keywords[e].count =
           Cardinality({i \in 1..Len(papers) :
                          Contains(trends.top_keywords[e].key, PoolText[papers[i]])})
      /\ trends.top_keywords[e].count <= trends.total_papers

\* A keyword counted in three papers, one of which holds it six times
C10_Witness ==
  /\ pc = "trend"
  /\ trends # NoTrends
  /\ ~trends.raised
  /\ \E i \in 1..Len(papers) : papers[i] = 8
  /\ \E e \in 1..Len(trends.top_keywords) :
       trends.top_keywords[e].key = "llm" /\ trends.top_keywords[e].count = 3

\* The place of key's first increment in the stream incs of a counter
FirstSeen(incs, key) ==
  CHOOSE i \in 1..Len(incs) : incs[i] = key /\ \A j \in 1..(i - 1) : incs[j] # key

\* How many increments of the stream incs are key's
TimesSeen(incs, key) == Cardinality({i \in 1..Len(incs) : incs[i] = key})

\* a ranks before b: the larger count, and of equal counts the one seen first
RanksBefore(incs, a, b) ==
  \/ TimesSeen(incs, a) > TimesSeen(incs, b)
  \/ TimesSeen(incs, a) = TimesSeen(incs, b) /\ FirstSeen(incs, a) < FirstSeen(incs, b)

\* list is the first K entries of that ranking of the keys of incs, with their counts
IsTopK(list, incs, K) ==
  LET keys   == {incs[i] : i \in 1..Len(incs)}
      listed == {list[e].key : e \in 1..Len(list)}
  IN  /\ Len(list) = (IF Cardinality(keys) < K THEN Cardinality(keys) ELSE K)
      /\ listed \subseteq keys
      /\ \A e \in 1..Len(list) : list[e].count = TimesSeen(incs, list[e].key)
      /\ \A e, f \in 1..Len(list) : e < f => RanksBefore(incs, list[e].key, list[f].key)
      /\ \A k \in keys \ listed : \A e \in 1..Len(list) : RanksBefore(incs, list[e].key, k)

\* extract_trends has returned a report for the batch
TrendsReported == pc = "trend" /\ trends # NoTrends /\ ~trends.raised

\* C11: each top-K list of the report (10 keywords, 5 emerging keywords, 5
\* institutions, 8 arXiv categories) is the first K entries of its counter
\* ranked by count, descending, entries of equal count in the order in which
\* the loop over the papers, in input order, met them first.
C11_TopKByCountThenFirstSeen ==
  TrendsReported =>
    /\ IsTopK(trends.top_keywords, GlobalIncs(papers, 1), 10)
    /\ IsTopK(trends.emerging_tech, EmergingIncs(papers, 1), 5)
    /\ IsTopK(trends.active_institutions, InstitutionIncs(papers, 1), 5)
    /\ IsTopK(trends.research_areas, AreaIncs(papers, 1), 8)

\* A report whose keyword list is ten keywords of one count, cut in the middle
\* of that tie, and whose category list puts a category met later before one
\* met earlier because its count is larger.
C11_Witness ==
  /\ TrendsReported
  /\ Len(trends.top_keywords) = 10
  /\ trends.top_keywords[1].count = trends.top_keywords[10].count
  /\ \E i \in 1..Len(GlobalIncs(papers, 1)) :
       /\ \A e \in 1..10 : trends.top_keywords[e].key # GlobalIncs(papers, 1)[i]
       /\ TimesSeen(GlobalIncs(papers, 1), GlobalIncs(papers, 1)[i]) = trends.top_keywords[10].count
  /\ \E e, f \in 1..Len(trends.research_areas) :
       /\ e < f
       /\ trends.research_areas[e].count > trends.research_areas[f].count
       /\ FirstSeen(AreaIncs(papers, 1), trends.research_areas[e].key)
            > FirstSeen(AreaIncs(papers, 1), trends.research_areas[f].key)

\* C12: for an empty batch, filter_important_papers returns an empty list and
\* extract_trends a report with total_papers = 0 and every count list empty,
\* neither raising; generate_trend_summary on that report returns a text, and
\* the text holds the count 0.
C12_EmptyBatch ==
  papers = << >> =>
    /\ \A p \in 1..Len(passes) : ~passes[p].raised /\ passes[p].result = << >>
    /\ pc \in {"extract", "render", "end"} => Len(passes) = 1
    /\ pc \in {"render", "end"} =>
         /\ ~trends.raised
         /\ trends.total_papers = 0
         /\ trends.top_keywords = << >>
         /\ trends.emerging_tech = << >>
         /\ trends.active_institutions = << >>
         /\ trends.research_areas = << >>
         /\ \A c \in 1..Len(trend_keywords) : trends.category_trends[c] = << >>
    /\ pc = "end" =>
         /\ ~trends.raised
         /\ trend_summary # NoText
         /\ \E l \in 1..Len(trend_summary) : Contains(ToString(0), trend_summary[l])

\* The three calls were made on the empty batch, and the text is there
C12_Witness ==
  /\ papers = << >>
  /\ pc = "end"
  /\ Len(passes) = 1
  /\ trends.total_papers = 0
  /\ Len(trend_summary) = 5

\* The entries of a text of detect_trend_changes: the lines under its header
Entries(text) == IF text # << >> /\ text[1] = ChangesHeader THEN Tail(text) ELSE << >>

\* The number of papers of batch whose lowercase title and abstract hold keyword
PapersHolding(batch, keyword) ==
  Cardinality({i \in 1..Len(batch) : Contains(keyword, PoolText[batch[i]])})

\* The entry C14 describes for one keyword of the current list, if any:
\* now and before are its counts in the two batches
ClaimedEntry(keyword, now, before, listedBefore) ==
  IF ~listedBefore THEN << "  [new] **" \o Title(keyword) \o "** (new)" >>
  ELSE IF now > before
  THEN << "  [up] **" \o Title(keyword) \o "** (+" \o ToString(now - before) \o " papers)" >>
  ELSE IF now < before
  THEN << "  [down] **" \o Title(keyword) \o "** (-" \o ToString(before - now) \o " papers)" >>
  ELSE << >>

\* The entries C14 describes for the first five keywords of current_top, in order
RECURSIVE ClaimedEntries(_, _, _)
ClaimedEntries(current_top, historical_top, i) ==
  IF i > Len(current_top) \/ i > 5 THEN << >>
  ELSE ClaimedEntry(current_top[i].key,
                    PapersHolding(papers, current_top[i].key),
                    PapersHolding(historical_papers, current_top[i].key),
                    \E h \in 1..Len(historical_top) : historical_top[h].key = current_top[i].key)
       \o ClaimedEntries(current_top, historical_top, i + 1)

\* detect_trend_changes has returned a text for the two batches
ChangesReported == pc = "changes" /\ trend_changes # NoChanges /\ ~trend_changes.raised

\* C14: for a current and a prior batch, detect_trend_changes emits, for each
\* of the current top-5 keywords in rank order, "new" when the prior top list
\* lacks it, "+N" when its count rose by N, "-N" when it fell by N, nothing
\* when it is unchanged, and no entry for any other keyword.
C14_ChangesForEveryPriorBatch ==
  ChangesReported =>
    Entries(trend_changes.text)
      = ClaimedEntries(ExtractTrends(papers).top_keywords,
                       ExtractTrends(historical_papers).top_keywords, 1)

\* C14, amended: the same for a prior batch that is not empty; for an empty
\* prior batch the text is the one line that says there is not enough data,
\* and it has no entry.
C14_ChangesForNonEmptyPriorBatch ==
  ChangesReported =>
    IF historical_papers = << >>
    THEN trend_changes.text = NotEnoughData /\ Entries(trend_changes.text) = << >>
    ELSE /\ Entries(trend_changes.text)
              = ClaimedEntries(ExtractTrends(papers).top_keywords,
                               ExtractTrends(historical_papers).top_keywords, 1)
         /\ trend_changes.text # NotEnoughData
         /\ Entries(trend_changes.text) = << >> <=> trend_changes.text = NoBigChange

\* Against a prior batch of three papers the current batch has more than five
\* keywords; the text has an entry for each of the first five: one count
\* rose, two keywords are new, two counts fell.
C14_Witness ==
  /\ ChangesReported
  /\ Len(historical_papers) = 3
  /\ Len(ExtractTrends(papers).top_keywords) > 5
  /\ Entries(trend_changes.text) =
       << "  [up] **Llm** (+1 papers)",
          "  [new] **Gpt** (new)",
          "  [new] **Attention** (new)",
          "  [down] **Code Generation** (-1 papers)",
          "  [down] **Copilot** (-1 papers)" >>

\* The affiliation phrases the lowercase, space-joined authors of each pool
\* paper hold
PoolAffiliationMatches ==
  [d \in 1..PoolSize |->
     IF "authors" \notin Pool[d].has THEN {}
     ELSE {a \in 1..Len(prestigious_affiliations) :
             Contains(prestigious_affiliations[a], Lower(JoinSpace(Pool[d].authors)))}]

\* The score of pool paper d without the affiliation bonus and the recency bonus
ScoreApartFromAffiliation(d) ==
  LET c == PoolContributions[d]
  IN  c.high + c.medium + c.basic + c.exclusion + c.practical + c.category + c.team

\* C13: the affiliation bonus enters a paper's score at most once: 2.0 when the
\* authors match one or several affiliation phrases, nothing when they match none.
C13_AffiliationBonusOnce ==
  \A p \in 1..Len(passes) :
    \A i \in 1..Len(papers) :
      passes[p].computed[i] # NoScore =>
        \E recency \in {0, 500, 1000} :
          passes[p].computed[i] - ScoreApartFromAffiliation(papers[i]) - recency
            = (IF PoolAffiliationMatches[papers[i]] = {} THEN 0 ELSE 2000)

\* A call scored a paper whose authors match three affiliation phrases: it
\* got 2.0 for them, 3.5 in all, beside a paper whose authors match none.
C13_Witness ==
  \E p \in 1..Len(passes) :
    \E i, j \in 1..Len(papers) :
      /\ Cardinality(PoolAffiliationMatches[papers[i]]) = 3
      /\ ScoreApartFromAffiliation(papers[i]) = 1000
      /\ passes[p].computed[i] = 3500
      /\ PoolAffiliationMatches[papers[j]] = {}
      /\ passes[p].computed[j] # NoScore

\* The recency bonus C15 describes for pool paper d on day nowDay
ClaimedRecency(d, nowDay) ==
  LET age == nowDay - PoolPubDate[d]
  IN  CASE PoolPubDate[d] # NoDate /\ age <= 30              -> 1000
        [] PoolPubDate[d] # NoDate /\ age > 30 /\ age <= 90  -> 500
        [] OTHER                                             -> 0

\* C15: the recency part of every score is that of one of the days the clock
\* read during the run: +1.0 for an age of at most 30 days, +0.5 for an age
\* of more than 30 and at most 90 days, nothing for an older paper or a date
\* that does not parse; never both bonuses, and a date that does not parse
\* raises nothing.
C15_RecencyBonus ==
  \A p \in 1..Len(passes) :
    /\ passes[p].raised =>
         \E i \in 1..Len(papers) :
           {"title", "summary", "authors", "categories"} \ Pool[papers[i]].has # {}
    /\ \A i \in 1..Len(papers) :
         passes[p].computed[i] # NoScore =>
           \E day \in Day0..today :
             passes[p].computed[i] - BaseScore(papers[i]) = ClaimedRecency(papers[i], day)

\* One call scored a paper 30 days old (+1.0), then, after midnight, a paper
\* 91 days old (nothing) and a paper whose date does not parse (nothing).
C15_Witness ==
  \E p \in 1..Len(passes) :
    /\ ~passes[p].raised
    /\ \E i, j, l \in 1..Len(papers) :
         /\ papers[i] = 2 /\ passes[p].computed[i] = BaseScore(2) + 1000
         /\ papers[j] = 6 /\ passes[p].computed[j] = BaseScore(6)
         /\ papers[l] = 10 /\ passes[p].computed[l] = BaseScore(10)
         /\ PoolPubDate[10] = NoDate
         /\ today - PoolPubDate[6] = 91

\* The combined report was handed to Slack and Slack took it
ReportDelivered == \E m \in 1..Len(slack) : slack[m].kind = "report" /\ slack[m].ok

\* C16: a run of main() returns True exactly when the combined report, the
\* daily summary and the trend summary, was sent and its delivery succeeded;
\* a run that ends on a missing environment variable, an empty fetch, an
\* empty selection, no summaries, a failed delivery or an exception returns
\* False; a run that has not ended has returned nothing.
C16_SuccessIffReportDelivered ==
  /\ pc # "done" => retval = "none" /\ ~ReportDelivered
  /\ pc = "done" =>
       /\ retval \in {"True", "False"}
       /\ retval = "True" <=> ReportDelivered
       /\ ReportDelivered =>
            /\ summaries # << >>
            /\ trend_summary # NoText
            /\ slack[Len(slack)].kind = "report"
       /\ ( \/ env # RequiredEnv
            \/ papers = << >>
            \/ important_papers = << >>
            \/ summaries = << >>
            \/ \E m \in 1..Len(slack) : slack[m].kind = "report" /\ ~slack[m].ok ) => retval = "False"

\* A run went through all three passes, summarized five papers' first three
\* and returned True after Slack took the report.
C16_Witness ==
  /\ pc = "done"
  /\ retval = "True"
  /\ Len(passes) = 3
  /\ Len(important_papers) = 5
  /\ Len(summaries) = 3
  /\ slack = << [kind |-> "report", ok |-> TRUE] >>

====
